---- MODULE Spec2Model ----
(***************************************************************************)
(* Model of the MCQ generator add-on (src/main.py): the sentence client    *)
(* generate_sentence_for_word with its retry loop, and the batch runner    *)
(* generate_mcq_for_cards with its distractor selection and note writes.   *)
(*                                                                         *)
(* Text is a sequence of one-character strings, so that str.strip() and    *)
(* str.format() are computed and not assumed.  The module-level random     *)
(* generator is a deterministic generator whose seed is unknown: its state *)
(* is the variable rng, and the seed is drawn in Init.                     *)
(***************************************************************************)
EXTENDS Integers, Sequences, FiniteSets, TLC

\* ------------------------------------------------------------------ bounds
MaxCids == 2          \* longest card selection handed to the batch runner
NumSeeds == 2         \* seeds of the random generator that are tried
NumOrders == 2        \* iteration orders of set(words) that are tried
MaxRetriesArg == 2    \* largest max_retries of a direct call

\* ------------------------------------------------------- program constants
DefaultMaxRetries == 5
RateLimitWait == 30
ErrorBackoff == 3
NumDistractors == 3
MinDeckWords == 4

Levels == <<"A1", "A2", "B1", "B2", "C1", "C2">>

\* --------------------------------------------------------------- text
Whitespace == {" ", "\n"}

RECURSIVE LStrip(_)
LStrip(s) ==
    IF s = <<>> THEN s
    ELSE IF Head(s) \in Whitespace THEN LStrip(Tail(s)) ELSE s

RECURSIVE RStrip(_)
RStrip(s) ==
    IF s = <<>> THEN s
    ELSE IF s[Len(s)] \in Whitespace THEN RStrip(SubSeq(s, 1, Len(s) - 1)) ELSE s

\* str.strip(): leading and trailing whitespace removed, inner kept.
Strip(s) == RStrip(LStrip(s))

\* A template is a sequence of pieces: literal text or a {name} field.
Lit(t) == [k |-> "lit", v |-> t]
Fld(n) == [k |-> "fld", v |-> n]

DEFAULT_PROMPT_TEMPLATE ==
    << Lit("Generate a sentence using '"), Fld("word"),
       Lit("' with a blank. Difficulty should be "), Fld("level"),
       Lit(" based on CEFR.") >>

\* PROMPT_TEMPLATE.format(word=word, level=level): raises on a field that is
\* neither word nor level; otherwise every field is replaced by its value.
FormatRaises(template) ==
    \E i \in 1..Len(template) :
        template[i].k = "fld" /\ template[i].v \notin {"word", "level"}

RECURSIVE Format(_, _, _)
Format(template, word, level) ==
    IF template = <<>> THEN <<>>
    ELSE LET p == Head(template)
             piece == IF p.k = "lit" THEN <<p.v>>
                      ELSE IF p.v = "word" THEN word
                      ELSE <<level>>
         IN  piece \o Format(Tail(template), word, level)

\* ------------------------------------------------------------- random
\* One step of the generator behind the random module.
NextRng(s) == (s * 75 + 74) % 65537

\* random._randbelow(n): a number in 0..n-1 and the generator's next state.
RandBelow(s, n) == [val |-> NextRng(s) % n, rng |-> NextRng(s)]

\* random.choice(seq)
Choice(seq, s) ==
    LET r == RandBelow(s, Len(seq)) IN [val |-> seq[r.val + 1], rng |-> r.rng]

\* random.sample(population, k): k picks without replacement; the picked slot
\* is refilled with the last unpicked element of the pool.
RECURSIVE SamplePick(_, _, _, _)
SamplePick(pool, n, k, s) ==
    IF k = 0 THEN [val |-> <<>>, rng |-> s]
    ELSE LET r == RandBelow(s, n)
             j == r.val + 1
             rest == SamplePick([pool EXCEPT ![j] = pool[n]], n - 1, k - 1, r.rng)
         IN  [val |-> <<pool[j]>> \o rest.val, rng |-> rest.rng]

Sample(population, k, s) == SamplePick(population, Len(population), k, s)

\* random.shuffle(x): for i from len-1 down to 1, swap x[i] with x[j], j <= i.
RECURSIVE ShuffleFrom(_, _, _)
ShuffleFrom(x, i, s) ==
    IF i < 2 THEN [val |-> x, rng |-> s]
    ELSE LET r == RandBelow(s, i)
             j == r.val + 1
         IN  ShuffleFrom([x EXCEPT ![i] = x[j], ![j] = x[i]], i - 1, r.rng)

Shuffle(x, s) == ShuffleFrom(x, Len(x), s)

\* --------------------------------------------------------- collection
\* A collection is a sequence of notes (one card each): deck id and raw Word.
N(d, w) == [did |-> d, Word |-> w]

Collections ==
    { << N(1, <<" ", "a">>), N(1, <<"b">>), N(1, <<"c", "\n">>),
         N(1, <<"x", " ", "y">>), N(1, <<"e">>) >>,
      << N(1, <<"a">>), N(1, <<"b">>), N(1, <<" ", "a">>), N(1, <<"c">>),
         N(1, <<"d">>) >>,
      << N(1, <<"a">>), N(1, <<" ">>), N(1, <<"b">>), N(1, <<"c">>),
         N(1, <<"d">>) >>,
      << N(1, <<"a">>), N(1, <<"b">>), N(1, <<"c">>), N(1, <<>>),
         N(2, <<"e">>) >>,
      << N(2, <<"e">>), N(1, <<"a">>), N(1, <<"b">>), N(1, <<"c">>),
         N(1, <<"d">>) >>,
      << N(1, <<"a">>), N(1, <<"b">>), N(1, <<"c">>), N(1, <<"d">>),
         N(2, <<"e">>) >> }

\* Card selections: cards of the collection in browser order, no repeats.
RECURSIVE Increasing(_, _, _)
Increasing(lo, hi, len) ==
    IF len = 0 THEN {<<>>}
    ELSE UNION { { <<i>> \o t : t \in Increasing(i + 1, hi, len - 1) } : i \in lo..hi }

Selections(col) == UNION { Increasing(1, Len(col), n) : n \in 0..MaxCids }

\* The six fields of a note the runner writes, before any run.
OldFields ==
    [SentenceBlank |-> <<"o">>, OptionA |-> <<"o">>, OptionB |-> <<"o">>,
     OptionC |-> <<"o">>, OptionD |-> <<"o">>, Answer |-> <<"o">>]

\* ------------------------------------------------------ configuration
Cfg(p, key, model, omodel, tpl) ==
    [LLM_PROVIDER |-> p, API_KEY |-> key, AI_MODEL |-> model,
     OLLAMA_MODEL |-> omodel, PROMPT_TEMPLATE |-> tpl]

Configs ==
    { Cfg("openai", "sk", "gpt", "gemma3:1b", DEFAULT_PROMPT_TEMPLATE),
      Cfg("openai", "sk", "gpt", "gemma3:1b", <<Lit("Use "), Fld("word")>>),
      Cfg("openai", "sk", "gpt", "gemma3:1b", <<Fld("word"), Fld("topic")>>),
      Cfg("openai", "", "gpt", "gemma3:1b", DEFAULT_PROMPT_TEMPLATE),
      Cfg("openai", "sk", "", "gemma3:1b", DEFAULT_PROMPT_TEMPLATE),
      Cfg("ollama", "", "", "gemma3:1b", DEFAULT_PROMPT_TEMPLATE),
      Cfg("ollama", "sk", "gpt", "", DEFAULT_PROMPT_TEMPLATE) }

\* ----------------------------------------------------------- backends
Contents == { <<" ", "I", " ", "_", "\n">>, <<" ", "\n">>, <<>> }

Reply(k, c) == [kind |-> k, content |-> c]

\* What the hosted endpoint can answer to one POST: 429, another non-2xx
\* status, a transport failure, a 200 whose JSON lacks choices[0].message
\* .content, or a 200 carrying content.
HostedReplies ==
    { Reply("status429", <<>>), Reply("http_error", <<>>),
      Reply("transport", <<>>), Reply("bad_shape", <<>>) }
    \cup { Reply("ok", c) : c \in Contents }

\* JSON values that can stand where the generated text is expected.
JStr(s) == [t |-> "str", s |-> s]
JNull == [t |-> "null", s |-> <<>>]
JNum == [t |-> "num", s |-> <<>>]

\* The body of a 200 answer of the local server, as far as the code looks.
Body(isDict, hasMsg, msgIsDict, msgHasContent, msgContent, hasContent, content) ==
    [isDict |-> isDict, hasMessage |-> hasMsg, messageIsDict |-> msgIsDict,
     messageHasContent |-> msgHasContent, messageContent |-> msgContent,
     hasContent |-> hasContent, content |-> content]

OllamaBodies ==
    { Body(TRUE, TRUE, TRUE, TRUE, JStr(<<"X", " ">>), FALSE, JNull),
      Body(TRUE, FALSE, FALSE, FALSE, JNull, TRUE, JStr(<<" ", "Y">>)),
      Body(TRUE, FALSE, FALSE, FALSE, JNull, FALSE, JNull),
      Body(TRUE, TRUE, TRUE, FALSE, JNull, TRUE, JStr(<<"Y">>)),
      Body(TRUE, TRUE, FALSE, FALSE, JNull, TRUE, JStr(<<"Y">>)),
      Body(TRUE, TRUE, TRUE, TRUE, JStr(<<" ">>), TRUE, JStr(<<"Y">>)),
      Body(TRUE, TRUE, TRUE, TRUE, JNull, FALSE, JNull),
      Body(TRUE, FALSE, FALSE, FALSE, JNull, TRUE, JNum),
      Body(FALSE, FALSE, FALSE, FALSE, JNull, FALSE, JNull) }

OllamaReplies ==
    { [kind |-> "transport", body |-> Body(FALSE, FALSE, FALSE, FALSE, JNull, FALSE, JNull)],
      [kind |-> "http_error", body |-> Body(FALSE, FALSE, FALSE, FALSE, JNull, FALSE, JNull)] }
    \cup { [kind |-> "json", body |-> b] : b \in OllamaBodies }

\* No answer of the local server yet.
NoAnswer == [kind |-> "none", body |-> Body(FALSE, FALSE, FALSE, FALSE, JNull, FALSE, JNull)]

\* Lines 94-99: the text is taken from message.content when message is an
\* object, else from the top-level content, else it stays "".
OllamaContent(data) ==
    IF ~data.isDict THEN JStr(<<>>)
    ELSE IF data.hasMessage /\ data.messageIsDict
         THEN (IF data.messageHasContent THEN data.messageContent ELSE JStr(<<>>))
    ELSE IF data.hasContent THEN data.content
    ELSE JStr(<<>>)

\* Line 100: (content or "").strip() raises on a truthy value that is no str.
OllamaStripRaises(c) == c.t = "num"
OllamaStripped(c) == IF c.t = "str" THEN Strip(c.s) ELSE <<>>

\* ------------------------------------------------------------ results
None == [kind |-> "None", val |-> <<>>]
Str(s) == [kind |-> "Str", val |-> s]
Raised == [kind |-> "Raise", val |-> <<>>]
NoPayload == [model |-> "", prompt |-> <<>>, temperature |-> "", stream |-> "", timeout |-> 0]

\* -------------------------------------------------------------- state
VARIABLES
    col,          \* the collection: notes with deck id and Word
    cids,         \* the card ids handed to generate_mcq_for_cards
    cfg,          \* module-level configuration (lines 38-57)
    csv,          \* the CSV harness: generate_mcq_for_words and its locals
    order,        \* which iteration order set(words) has in this process
    rng,          \* state of the random module's generator
    store,        \* the six written fields of every note, as flushed
    pc,           \* position in generate_mcq_for_cards
    index,        \* position of the loop in cids
    deck_words,   \* local deck_words
    word,         \* local word
    distractors,  \* local distractors
    note,         \* local note object: its id and its fields in memory
    ui,           \* progress dialog and notifications of the runner
    outcome,      \* how each item of the run so far ended, in order
    gpc,          \* position in generate_sentence_for_word
    gword,        \* argument word
    gmax,         \* argument max_retries
    payload,      \* local payload
    retries,      \* local retries
    requests,     \* POSTs issued by this call
    n429,         \* 429 answers this call received
    nErr,         \* transport and HTTP errors this call received
    waits,        \* non_blocking_wait calls of this call
    sleeps,       \* time.sleep calls of this call
    sent,         \* the payloads this call sent
    result,       \* what the call returned or that it raised
    err,          \* which failure the call reported to the user
    got,          \* the content of the 200 answer the call received
    answer        \* what the local server answered to this call, or that
                  \* the hosted one answered it with a 200 holding content

world == <<col, cids, cfg, order, csv>>
runner == <<store, pc, index, deck_words, word, distractors, note, ui, outcome>>
call == <<gpc, gword, gmax, payload, retries, requests, n429, nErr, waits,
          sleeps, sent, result, err, got, answer>>
vars == <<world, rng, runner, call>>

Notes == 1..Len(col)

\* The CSV harness when it is not running.
NoCsv == [pc |-> "off", words |-> <<>>, test_count |-> 0, all_words |-> <<>>,
          index |-> 0, word |-> <<>>, distractors |-> <<>>, results |-> <<>>]

NoNote == [nid |-> 0, fields |-> OldFields]
InitUi == [dialog |-> "none", closes |-> 0, resets |-> 0, success |-> 0,
           apiError |-> 0, tooFew |-> 0, progress |-> 0]

\* The locals of a call that is not running.
CallIdle ==
    /\ gword = <<>> /\ gmax = 0 /\ payload = NoPayload /\ retries = 0
    /\ requests = 0 /\ n429 = 0 /\ nErr = 0 /\ waits = 0 /\ sleeps = 0
    /\ sent = {} /\ result = None /\ err = "none" /\ got = <<>>
    /\ answer = NoAnswer

RunnerIdle ==
    /\ index = 0 /\ deck_words = <<>> /\ word = <<>> /\ distractors = <<>>
    /\ note = NoNote /\ ui = InitUi /\ outcome = <<>>

\* A batch run: generate_mcq_for_cards(cids) on some collection.
Init ==
    /\ col \in Collections
    /\ cids \in Selections(col)
    /\ cfg \in Configs
    /\ order \in 0..(NumOrders - 1)
    /\ csv = NoCsv
    /\ rng \in 0..(NumSeeds - 1)
    /\ store = [n \in 1..Len(col) |-> OldFields]
    /\ pc = "Pending"
    /\ RunnerIdle
    /\ gpc = "idle"
    /\ CallIdle

\* ------------------------------------------------ get_all_deck_words
\* mw.col.decks.cids(did): the cards of the deck, in id order.
RECURSIVE DeckCidsFrom(_, _, _)
DeckCidsFrom(c, did, i) ==
    IF i > Len(c) THEN <<>>
    ELSE (IF c[i].did = did THEN <<i>> ELSE <<>>) \o DeckCidsFrom(c, did, i + 1)

DeckCids(c, did) == DeckCidsFrom(c, did, 1)

\* Lines 159-164: the stripped Word of every card, the empty ones left out.
RECURSIVE StrippedWords(_, _)
StrippedWords(c, ids) ==
    IF ids = <<>> THEN <<>>
    ELSE LET w == Strip(c[Head(ids)].Word)
         IN  (IF w # <<>> THEN <<w>> ELSE <<>>) \o StrippedWords(c, Tail(ids))

RECURSIVE Dedup(_)
Dedup(ws) ==
    IF ws = <<>> THEN <<>>
    ELSE LET front == Dedup(SubSeq(ws, 1, Len(ws) - 1))
             last == ws[Len(ws)]
         IN  IF \E i \in 1..Len(front) : front[i] = last THEN front
             ELSE Append(front, last)

Rotate(ws, h) ==
    IF ws = <<>> THEN ws
    ELSE [i \in 1..Len(ws) |-> ws[((i - 1 + h) % Len(ws)) + 1]]

\* Line 165, list(set(words)): each word once, in an order that depends on
\* the process (string hashing), here one of NumOrders rotations.
ListOfSet(ws, h) == Rotate(Dedup(ws), h)

get_all_deck_words(c, did, h) == ListOfSet(StrippedWords(c, DeckCids(c, did)), h)

\* Variant: the word itself stays among the candidates.
OthersKeepsWord(dw, w) == dw

\* Line 199: others = [w for w in deck_words if w != word]
Others(dw, w) ==
    LET keep(x) == x # w IN SelectSeq(dw, keep)

\* ------------------------------------- generate_sentence_for_word
\* Line 73, and the prompt of line 75 when the template renders.
DrawLevel == Choice(Levels, rng)
Prompt == Format(cfg.PROMPT_TEMPLATE, gword, DrawLevel.val)

\* Lines 84-89 and the timeout of line 91.
OllamaPayload(prompt) ==
    [model |-> cfg.OLLAMA_MODEL, prompt |-> prompt, temperature |-> "TEMPERATURE",
     stream |-> "False", timeout |-> 60]

\* Lines 122-126; line 131 passes no timeout.
HostedPayload(prompt) ==
    [model |-> cfg.AI_MODEL, prompt |-> prompt, temperature |-> "TEMPERATURE",
     stream |-> "", timeout |-> 0]

\* Variant: the prompt is rendered again, with another level, on every attempt.
RequestPayloadRedrawn(p, attempt) ==
    [p EXCEPT !.prompt = Format(cfg.PROMPT_TEMPLATE, gword, Levels[(attempt % 6) + 1])]

\* What one POST of the retry loop carries (line 131: the payload as built).
RequestPayload(p, attempt) == p

\* Variant: one attempt fewer.
RetryAllowedStrict(r, m) == r < m

\* Line 129: while retries <= max_retries
RetryAllowed(r, m) == r <= m

\* Line 145: if retries > max_retries: raise
ErrorBudgetSpent(r, m) == r > m

Return(res, e) ==
    /\ gpc' = "ret"
    /\ result' = res
    /\ err' = e
    /\ got' = got
    /\ answer' = answer

\* Lines 73-78: format() raises, the user is told, None is returned.
GenInvalidTemplate ==
    /\ gpc = "start"
    /\ FormatRaises(cfg.PROMPT_TEMPLATE)
    /\ rng' = DrawLevel.rng
    /\ Return(None, "InvalidTemplate")
    /\ UNCHANGED <<world, runner, gword, gmax, payload, retries, requests, n429,
                   nErr, waits, sleeps, sent>>

\* Lines 80-83.
GenOllamaNoModel ==
    /\ gpc = "start"
    /\ ~FormatRaises(cfg.PROMPT_TEMPLATE)
    /\ cfg.LLM_PROVIDER = "ollama"
    /\ cfg.OLLAMA_MODEL = ""
    /\ rng' = DrawLevel.rng
    /\ Return(None, "ConfigurationMissing")
    /\ UNCHANGED <<world, runner, gword, gmax, payload, retries, requests, n429,
                   nErr, waits, sleeps, sent>>

\* Lines 84-91: the single POST to the local server leaves.
GenOllamaPost ==
    /\ gpc = "start"
    /\ ~FormatRaises(cfg.PROMPT_TEMPLATE)
    /\ cfg.LLM_PROVIDER = "ollama"
    /\ cfg.OLLAMA_MODEL # ""
    /\ rng' = DrawLevel.rng
    /\ payload' = OllamaPayload(Prompt)
    /\ requests' = requests + 1
    /\ sent' = sent \cup {payload'}
    /\ gpc' = "ollama_inflight"
    /\ UNCHANGED <<world, runner, gword, gmax, retries, n429, nErr, waits, sleeps,
                   result, err, got, answer>>

\* Lines 92-110: the answer of the local server is handled.
OllamaReturn(reply, res, e) ==
    /\ gpc' = "ret"
    /\ result' = res
    /\ err' = e
    /\ got' = got
    /\ answer' = reply

OllamaAnswer(reply) ==
    LET content == OllamaContent(reply.body) IN
    IF reply.kind # "json" THEN OllamaReturn(reply, None, "TransportError")
    ELSE IF OllamaStripRaises(content) THEN OllamaReturn(reply, None, "Unexpected")
    ELSE IF OllamaStripped(content) = <<>> THEN OllamaReturn(reply, None, "EmptyResponse")
    ELSE OllamaReturn(reply, Str(OllamaStripped(content)), "none")

\* Variant: a transport error of the local server sends the call back to
\* its request.
GenOllamaReplyRetries ==
    /\ gpc = "ollama_inflight"
    /\ \E reply \in OllamaReplies :
          IF reply.kind = "transport"
          THEN /\ gpc' = "start"
               /\ answer' = reply
               /\ UNCHANGED <<result, err, got>>
          ELSE OllamaAnswer(reply)
    /\ UNCHANGED <<world, rng, runner, gword, gmax, payload, retries, requests,
                   n429, nErr, waits, sleeps, sent>>

GenOllamaReply ==
    /\ gpc = "ollama_inflight"
    /\ \E reply \in OllamaReplies : OllamaAnswer(reply)
    /\ UNCHANGED <<world, rng, runner, gword, gmax, payload, retries, requests,
                   n429, nErr, waits, sleeps, sent>>

\* Lines 112-114.
GenNoApiKey ==
    /\ gpc = "start"
    /\ ~FormatRaises(cfg.PROMPT_TEMPLATE)
    /\ cfg.LLM_PROVIDER # "ollama"
    /\ cfg.API_KEY = ""
    /\ rng' = DrawLevel.rng
    /\ Return(None, "ConfigurationMissing")
    /\ UNCHANGED <<world, runner, gword, gmax, payload, retries, requests, n429,
                   nErr, waits, sleeps, sent>>

\* Lines 115-117.
\* Variant: the model name is not looked at before the loop is entered.
GenNoModelEnters ==
    /\ gpc = "start"
    /\ ~FormatRaises(cfg.PROMPT_TEMPLATE)
    /\ cfg.LLM_PROVIDER # "ollama"
    /\ cfg.API_KEY # ""
    /\ cfg.AI_MODEL = ""
    /\ rng' = DrawLevel.rng
    /\ payload' = HostedPayload(Prompt)
    /\ retries' = 0
    /\ gpc' = "loop"
    /\ UNCHANGED <<world, runner, gword, gmax, requests, n429, nErr, waits, sleeps,
                   sent, result, err, got, answer>>

GenNoModel ==
    /\ gpc = "start"
    /\ ~FormatRaises(cfg.PROMPT_TEMPLATE)
    /\ cfg.LLM_PROVIDER # "ollama"
    /\ cfg.API_KEY # ""
    /\ cfg.AI_MODEL = ""
    /\ rng' = DrawLevel.rng
    /\ Return(None, "ConfigurationMissing")
    /\ UNCHANGED <<world, runner, gword, gmax, payload, retries, requests, n429,
                   nErr, waits, sleeps, sent>>

\* Lines 118-128: headers and payload are built once, retries = 0.
GenHostedEnter ==
    /\ gpc = "start"
    /\ ~FormatRaises(cfg.PROMPT_TEMPLATE)
    /\ cfg.LLM_PROVIDER # "ollama"
    /\ cfg.API_KEY # ""
    /\ cfg.AI_MODEL # ""
    /\ rng' = DrawLevel.rng
    /\ payload' = HostedPayload(Prompt)
    /\ retries' = 0
    /\ gpc' = "loop"
    /\ UNCHANGED <<world, runner, gword, gmax, requests, n429, nErr, waits, sleeps,
                   sent, result, err, got, answer>>

\* Lines 129-131: the loop condition holds and the POST leaves.
HostedPost ==
    /\ gpc = "loop"
    /\ RetryAllowed(retries, gmax)
    /\ requests' = requests + 1
    /\ sent' = sent \cup {RequestPayload(payload, requests)}
    /\ gpc' = "inflight"
    /\ UNCHANGED <<world, rng, runner, gword, gmax, payload, retries, n429, nErr,
                   waits, sleeps, result, err, got, answer>>

\* Lines 152-153: the loop condition fails.
HostedGiveUp ==
    /\ gpc = "loop"
    /\ ~RetryAllowed(retries, gmax)
    /\ Return(None, "RetriesExhausted")
    /\ UNCHANGED <<world, rng, runner, gword, gmax, payload, retries, requests,
                   n429, nErr, waits, sleeps, sent>>

\* Variant: on a 429 the retry bound is looked at first, and the call gives
\* up without waiting when no attempt is left.
Hosted429ChecksFirst ==
    /\ gpc = "inflight"
    /\ Reply("status429", <<>>) \in HostedReplies
    /\ n429' = n429 + 1
    /\ IF retries + 1 > gmax
       THEN Return(None, "RetriesExhausted") /\ waits' = waits
       ELSE gpc' = "wait" /\ waits' = waits + 1 /\ UNCHANGED <<result, err, got, answer>>
    /\ UNCHANGED <<world, rng, runner, gword, gmax, payload, retries, requests,
                   nErr, sleeps, sent>>

\* Lines 132-135: a 429 is answered by entering non_blocking_wait.
Hosted429 ==
    /\ gpc = "inflight"
    /\ Reply("status429", <<>>) \in HostedReplies
    /\ n429' = n429 + 1
    /\ waits' = waits + 1
    /\ gpc' = "wait"
    /\ UNCHANGED <<world, rng, runner, gword, gmax, payload, retries, requests,
                   nErr, sleeps, sent, result, err, got, answer>>

\* Lines 59-62 and 136-137: the timer fires, retries += 1, continue.
\* Variant: the wait is over but the retry is not counted.
WaitElapsedSameCount ==
    /\ gpc = "wait"
    /\ gpc' = "loop"
    /\ UNCHANGED <<world, rng, runner, gword, gmax, payload, retries, requests,
                   n429, nErr, waits, sleeps, sent, result, err, got, answer>>

\* Variant: the loop of the runner moves on while the call waits.
WaitElapsedNextItem ==
    /\ gpc = "wait"
    /\ retries' = retries + 1
    /\ gpc' = "loop"
    /\ index' = index + 1
    /\ UNCHANGED <<world, rng, store, pc, deck_words, word, distractors, note, ui,
                   outcome, gword, gmax, payload, requests, n429, nErr, waits,
                   sleeps, sent, result, err, got, answer>>

WaitElapsed ==
    /\ gpc = "wait"
    /\ retries' = retries + 1
    /\ gpc' = "loop"
    /\ UNCHANGED <<world, rng, runner, gword, gmax, payload, requests, n429, nErr,
                   waits, sleeps, sent, result, err, got, answer>>

\* Variant: a 200 whose content strips to nothing is reported as an empty
\* response, as the local backend does.
HostedOkRejectsBlank ==
    /\ gpc = "inflight"
    /\ \E reply \in HostedReplies :
          /\ reply.kind = "ok"
          /\ gpc' = "ret"
          /\ result' = IF Strip(reply.content) = <<>> THEN None
                        ELSE Str(Strip(reply.content))
          /\ err' = IF Strip(reply.content) = <<>> THEN "EmptyResponse" ELSE "none"
          /\ got' = reply.content
          /\ answer' = [NoAnswer EXCEPT !.kind = "ok"]
    /\ UNCHANGED <<world, rng, runner, gword, gmax, payload, retries, requests,
                   n429, nErr, waits, sleeps, sent>>

\* Lines 138-141: a 200 with content returns the stripped content.
HostedOk ==
    /\ gpc = "inflight"
    /\ \E reply \in HostedReplies :
          /\ reply.kind = "ok"
          /\ gpc' = "ret"
          /\ result' = Str(Strip(reply.content))
          /\ err' = "none"
          /\ got' = reply.content
          /\ answer' = [NoAnswer EXCEPT !.kind = "ok"]
    /\ UNCHANGED <<world, rng, runner, gword, gmax, payload, retries, requests,
                   n429, nErr, waits, sleeps, sent>>

\* Lines 139-140 and 148-150: the 200 lacks the expected content; re-raised.
HostedBadShape ==
    /\ gpc = "inflight"
    /\ Reply("bad_shape", <<>>) \in HostedReplies
    /\ Return(Raised, "Unexpected")
    /\ UNCHANGED <<world, rng, runner, gword, gmax, payload, retries, requests,
                   n429, nErr, waits, sleeps, sent>>

\* Variant: errors are counted apart from retries and bounded on their own.
HostedErrorOwnCounter ==
    /\ gpc = "inflight"
    /\ \E reply \in HostedReplies : reply.kind \in {"http_error", "transport"}
    /\ nErr' = nErr + 1
    /\ IF nErr' > gmax
       THEN Return(Raised, "TransportError") /\ sleeps' = sleeps
       ELSE gpc' = "sleep" /\ sleeps' = sleeps + 1 /\ UNCHANGED <<result, err>>
    /\ UNCHANGED <<world, rng, runner, gword, gmax, payload, retries, requests,
                   n429, waits, sent, got, answer>>

\* Lines 131/138 and 142-147: the POST fails or raise_for_status raises.
HostedError ==
    /\ gpc = "inflight"
    /\ \E reply \in HostedReplies : reply.kind \in {"http_error", "transport"}
    /\ nErr' = nErr + 1
    /\ retries' = retries + 1
    /\ IF ErrorBudgetSpent(retries', gmax)
       THEN Return(Raised, "TransportError") /\ sleeps' = sleeps
       ELSE gpc' = "sleep" /\ sleeps' = sleeps + 1 /\ UNCHANGED <<result, err>>
    /\ UNCHANGED <<world, rng, runner, gword, gmax, payload, requests, n429, waits,
                   sent, got, answer>>

\* Line 147: time.sleep(3) ends, the loop goes round.
SleepElapsed ==
    /\ gpc = "sleep"
    /\ gpc' = "loop"
    /\ UNCHANGED <<world, rng, runner, gword, gmax, payload, retries, requests,
                   n429, nErr, waits, sleeps, sent, result, err, got, answer>>

Generate ==
    \/ GenInvalidTemplate
    \/ GenOllamaNoModel
    \/ GenOllamaPost
    \/ GenOllamaReply
    \/ GenNoApiKey
    \/ GenNoModel
    \/ GenHostedEnter
    \/ HostedPost
    \/ HostedGiveUp
    \/ Hosted429
    \/ WaitElapsed
    \/ HostedOk
    \/ HostedBadShape
    \/ HostedError
    \/ SleepElapsed

\* ------------------------------------------- generate_mcq_for_cards
\* The frame of a finished call is gone.
CallReset ==
    /\ gpc' = "idle" /\ gword' = <<>> /\ gmax' = 0 /\ payload' = NoPayload
    /\ retries' = 0 /\ requests' = 0 /\ n429' = 0 /\ nErr' = 0 /\ waits' = 0
    /\ sleeps' = 0 /\ sent' = {} /\ result' = None /\ err' = "none"
    /\ got' = <<>>
    /\ answer' = NoAnswer

\* Lines 184-185: nothing selected, nothing done.
ReturnNoCards ==
    /\ pc = "Pending"
    /\ cids = <<>>
    /\ pc' = "returned"
    /\ UNCHANGED <<world, rng, store, index, deck_words, word, distractors, note,
                   ui, outcome, call>>

\* Lines 186-187: the words of the first card's deck.
DeckIds == UNION { { c[i].did : i \in DOMAIN c } : c \in Collections }

\* get_all_deck_words tabulated over the collections, decks and orders.
DeckWordsOf ==
    [c \in Collections |->
        [d \in DeckIds |->
            [h \in 0..(NumOrders - 1) |-> get_all_deck_words(c, d, h)]]]

FirstDeckWords == DeckWordsOf[col][col[cids[1]].did][order]

\* Variant: three words are taken to be enough.
TooFewOffByOne(dw) == Len(dw) < NumDistractors

\* Line 188: the deck is too small for any question.
TooFew(dw) == Len(dw) < MinDeckWords

\* Lines 188-190: the user is told and the run ends before the loop.
ReturnTooFewWords ==
    /\ pc = "Pending"
    /\ cids # <<>>
    /\ TooFew(FirstDeckWords)
    /\ deck_words' = FirstDeckWords
    /\ ui' = [ui EXCEPT !.tooFew = @ + 1]
    /\ pc' = "aborted_pool"
    /\ UNCHANGED <<world, rng, store, index, word, distractors, note, outcome,
                   call>>

\* Lines 192-194: the progress dialog opens and the loop starts.
Begin ==
    /\ pc = "Pending"
    /\ cids # <<>>
    /\ ~TooFew(FirstDeckWords)
    /\ deck_words' = FirstDeckWords
    /\ ui' = [ui EXCEPT !.dialog = "open"]
    /\ index' = 1
    /\ pc' = "loop"
    /\ UNCHANGED <<world, rng, store, word, distractors, note, outcome, call>>

\* Line 195: mw.col.getCard(cid).note() reads the note as stored.
LoadNote(nid) == [nid |-> nid, fields |-> store[nid]]

\* Line 196.
ItemWord == Strip(col[cids[index]].Word)

\* How an item ended: passed over for its empty Word, skipped or raised with
\* the failure the call reported, or emitted with the fields as saved.
Ended(how, e, fields) == [how |-> how, err |-> e, fields |-> fields]

NextItem ==
    /\ index' = index + 1
    /\ word' = <<>>
    /\ distractors' = <<>>
    /\ note' = NoNote
    /\ pc' = "loop"

\* Lines 194-198: an item whose Word is empty is passed over.
SkipEmptyWord ==
    /\ pc = "loop"
    /\ index <= Len(cids)
    /\ ItemWord = <<>>
    /\ NextItem
    /\ outcome' = Append(outcome, Ended("empty", "none", OldFields))
    /\ UNCHANGED <<world, rng, store, deck_words, ui, call>>

\* Lines 194-202: the distractors are drawn, then the sentence is asked for.
\* random.sample raises on fewer than three others, outside the try.
SelectDistractors ==
    /\ pc = "loop"
    /\ index <= Len(cids)
    /\ ItemWord # <<>>
    /\ note' = LoadNote(cids[index])
    /\ word' = ItemWord
    /\ LET others == Others(deck_words, ItemWord) IN
       IF Len(others) < NumDistractors
       THEN /\ pc' = "crashed"
            /\ UNCHANGED <<rng, distractors, call>>
       ELSE /\ distractors' = Sample(others, NumDistractors, rng).val
            /\ rng' = Sample(others, NumDistractors, rng).rng
            /\ pc' = "call"
            /\ gpc' = "start"
            /\ gword' = ItemWord
            /\ gmax' = DefaultMaxRetries
            /\ UNCHANGED <<payload, retries, requests, n429, nErr, waits, sleeps,
                           sent, result, err, got, answer>>
    /\ UNCHANGED <<world, store, index, deck_words, ui, outcome>>

\* Variant: None ends the run like an exception does.
OnNoneAborts ==
    /\ pc = "call"
    /\ gpc = "ret"
    /\ result.kind = "None"
    /\ ui' = [ui EXCEPT !.apiError = @ + 1, !.dialog = "closed",
                        !.closes = @ + 1, !.resets = @ + 1]
    /\ pc' = "aborted"
    /\ outcome' = Append(outcome, Ended("raised", err, OldFields))
    /\ CallReset
    /\ UNCHANGED <<world, rng, store, index, deck_words, word, distractors, note>>

\* Lines 203-204: None means this item is passed over, the loop goes on.
OnNone ==
    /\ pc = "call"
    /\ gpc = "ret"
    /\ result.kind = "None"
    /\ NextItem
    /\ outcome' = Append(outcome, Ended("skipped", err, OldFields))
    /\ CallReset
    /\ UNCHANGED <<world, rng, store, deck_words, ui>>

\* Variant: an exception is swallowed and the loop goes on.
OnRaiseContinues ==
    /\ pc = "call"
    /\ gpc = "ret"
    /\ result.kind = "Raise"
    /\ NextItem
    /\ outcome' = Append(outcome, Ended("skipped", err, OldFields))
    /\ CallReset
    /\ UNCHANGED <<world, rng, store, deck_words, ui>>

\* Variant: the abort path clears what the run has saved so far.
OnRaiseRollsBack ==
    /\ pc = "call"
    /\ gpc = "ret"
    /\ result.kind = "Raise"
    /\ ui' = [ui EXCEPT !.apiError = @ + 1, !.dialog = "closed",
                        !.closes = @ + 1, !.resets = @ + 1]
    /\ pc' = "aborted"
    /\ store' = [n \in Notes |-> OldFields]
    /\ outcome' = Append(outcome, Ended("raised", err, OldFields))
    /\ CallReset
    /\ UNCHANGED <<world, rng, index, deck_words, word, distractors, note>>

\* Lines 205-209: an exception ends the run: message, dialog closed, reset.
OnRaise ==
    /\ pc = "call"
    /\ gpc = "ret"
    /\ result.kind = "Raise"
    /\ ui' = [ui EXCEPT !.apiError = @ + 1, !.dialog = "closed",
                        !.closes = @ + 1, !.resets = @ + 1]
    /\ pc' = "aborted"
    /\ outcome' = Append(outcome, Ended("raised", err, OldFields))
    /\ CallReset
    /\ UNCHANGED <<world, rng, store, index, deck_words, word, distractors, note>>

\* Variant: the Answer field is left as it was.
WrittenWithoutAnswer(fields, sentence, options, w) ==
    [fields EXCEPT !.SentenceBlank = sentence,
                   !.OptionA = options[1], !.OptionB = options[2],
                   !.OptionC = options[3], !.OptionD = options[4]]

\* Lines 212-214: the six fields, in the note object.
Written(fields, sentence, options, w) ==
    [fields EXCEPT !.SentenceBlank = sentence,
                   !.OptionA = options[1], !.OptionB = options[2],
                   !.OptionC = options[3], !.OptionD = options[4],
                   !.Answer = w]

\* Lines 210-214: a sentence came back; options are shuffled, fields are set.
Assemble ==
    /\ pc = "call"
    /\ gpc = "ret"
    /\ result.kind = "Str"
    /\ LET mixed == Shuffle(<<word>> \o distractors, rng) IN
       /\ note' = [note EXCEPT !.fields = Written(@, result.val, mixed.val, word)]
       /\ rng' = mixed.rng
    /\ pc' = "flush"
    /\ CallReset
    /\ UNCHANGED <<world, store, index, deck_words, word, distractors, ui,
                   outcome>>

\* Lines 215-217: the note is saved, the progress bar moves.
Flush ==
    /\ pc = "flush"
    /\ store' = [store EXCEPT ![note.nid] = note.fields]
    /\ ui' = [ui EXCEPT !.progress = index]
    /\ NextItem
    /\ outcome' = Append(outcome, Ended("emitted", "none", note.fields))
    /\ UNCHANGED <<world, rng, deck_words, call>>

\* Variant: the success message is shown only when a note was saved.
FinishOnlyIfWritten ==
    /\ pc = "loop"
    /\ index > Len(cids)
    /\ ui' = [ui EXCEPT !.dialog = "closed", !.closes = @ + 1, !.resets = @ + 1,
                        !.success = IF ui.progress > 0 THEN @ + 1 ELSE @]
    /\ pc' = "done"
    /\ UNCHANGED <<world, rng, store, index, deck_words, word, distractors, note,
                   outcome, call>>

\* Lines 219-221: the loop is over: dialog closed, reset, success message.
Finish ==
    /\ pc = "loop"
    /\ index > Len(cids)
    /\ ui' = [ui EXCEPT !.dialog = "closed", !.closes = @ + 1, !.resets = @ + 1,
                        !.success = @ + 1]
    /\ pc' = "done"
    /\ UNCHANGED <<world, rng, store, index, deck_words, word, distractors, note,
                   outcome, call>>

Next ==
    \/ ReturnNoCards
    \/ ReturnTooFewWords
    \/ Begin
    \/ SkipEmptyWord
    \/ SelectDistractors
    \/ Generate
    \/ OnNone
    \/ OnRaise
    \/ Assemble
    \/ Flush
    \/ Finish

Spec == Init /\ [][Next]_vars

\* The batch state machine of the runner, read off its position.
Phase ==
    CASE pc = "Pending" -> "Pending"
      [] pc \in {"loop", "call", "flush"} -> "Running"
      [] pc \in {"done", "returned"} -> "Completed"
      [] pc \in {"aborted", "aborted_pool"} -> "Aborted"
      [] OTHER -> "None"

\* Every request is answered, every wait and sleep elapses, and the runner
\* takes its next step.
SpecFair == Spec /\ WF_vars(Next)

\* --------------------------------------------------- the CSV harness
\* src/test_main.py, generate_mcq_for_words(words, test_count). It calls its
\* own copy of generate_sentence_for_word (lines 114-206), which returns the
\* sentence, returns None or raises as the add-on's does.
DefaultTestCount == 3
CsvMinWords == 4
CsvNumDistractors == 3

\* The rows handed to the harness, by their Word.
CsvWordLists ==
    { <<>>,
      << <<"a">>, <<"b">>, <<"c">> >>,
      << <<"a">>, <<"b">>, <<"c">>, <<"d">> >>,
      << <<"a">>, <<"b">>, <<"b">>, <<"c">> >>,
      << <<"a">>, <<"b">>, <<"b">>, <<"b">> >>,
      << <<>>, <<"a">>, <<"b">>, <<"c">> >>,
      << <<"a">>, <<>>, <<"b">>, <<"c">>, <<"d">> >> }

\* Line 243: all_words = [w['Word'] for w in words if w['Word']]
AllWords(ws) == SelectSeq(ws, LAMBDA w : w # <<>>)

\* Line 246: test_words = words[:test_count]
TestWords(ws, n) == SubSeq(ws, 1, IF n < Len(ws) THEN n ELSE Len(ws))

CsvWord == csv.words[csv.index]

\* Line 263: others = [w for w in all_words if w != word]
CsvOthers == SelectSeq(csv.all_words, LAMBDA w : w # CsvWord)

CsvNextItem(results) ==
    csv' = [csv EXCEPT !.index = @ + 1, !.word = <<>>, !.distractors = <<>>,
                       !.results = results, !.pc = "loop"]

\* Lines 234-236.
CsvNoWords ==
    /\ csv.pc = "start"
    /\ csv.words = <<>>
    /\ csv' = [csv EXCEPT !.pc = "done"]
    /\ UNCHANGED <<col, cids, cfg, order, rng, runner, call>>

\* Lines 238-240.
CsvTooFew ==
    /\ csv.pc = "start"
    /\ csv.words # <<>>
    /\ Len(csv.words) < CsvMinWords
    /\ csv' = [csv EXCEPT !.pc = "done"]
    /\ UNCHANGED <<col, cids, cfg, order, rng, runner, call>>

\* Lines 242-253.
CsvBegin ==
    /\ csv.pc = "start"
    /\ Len(csv.words) >= CsvMinWords
    /\ csv' = [csv EXCEPT !.all_words = AllWords(csv.words), !.index = 1,
                          !.pc = "loop"]
    /\ UNCHANGED <<col, cids, cfg, order, rng, runner, call>>

CsvInLoop ==
    /\ csv.pc = "loop"
    /\ csv.index <= Len(TestWords(csv.words, csv.test_count))

\* Lines 254-257: a row without a Word is passed over.
CsvSkipEmpty ==
    /\ CsvInLoop
    /\ CsvWord = <<>>
    /\ CsvNextItem(csv.results)
    /\ UNCHANGED <<col, cids, cfg, order, rng, runner, call>>

\* Lines 262-267: fewer than three other words, the row is passed over.
CsvSkipFewOthers ==
    /\ CsvInLoop
    /\ CsvWord # <<>>
    /\ Len(CsvOthers) < CsvNumDistractors
    /\ CsvNextItem(csv.results)
    /\ UNCHANGED <<col, cids, cfg, order, rng, runner, call>>

\* Lines 269-273: three distractors are drawn, the sentence is asked for.
CsvSelect ==
    /\ CsvInLoop
    /\ CsvWord # <<>>
    /\ Len(CsvOthers) >= CsvNumDistractors
    /\ csv' = [csv EXCEPT !.word = CsvWord,
                          !.distractors = Sample(CsvOthers, CsvNumDistractors, rng).val,
                          !.pc = "call"]
    /\ rng' = Sample(CsvOthers, CsvNumDistractors, rng).rng
    /\ gpc' = "start"
    /\ gword' = CsvWord
    /\ gmax' = DefaultMaxRetries
    /\ UNCHANGED <<col, cids, cfg, order, runner, payload, retries, requests,
                   n429, nErr, waits, sleeps, sent, result, err, got, answer>>

\* Lines 272-279: None or an exception, the row is passed over.
CsvOnFailure ==
    /\ csv.pc = "call"
    /\ gpc = "ret"
    /\ result.kind \in {"None", "Raise"}
    /\ CsvNextItem(csv.results)
    /\ CallReset
    /\ UNCHANGED <<col, cids, cfg, order, rng, runner>>

\* Lines 285-293.
CsvRecord(w, sentence, options) ==
    [Word |-> w, SentenceBlank |-> sentence,
     OptionA |-> options[1], OptionB |-> options[2],
     OptionC |-> options[3], OptionD |-> options[4], Answer |-> w]

\* Lines 281-295: the options are shuffled and the record is appended.
CsvAppend ==
    /\ csv.pc = "call"
    /\ gpc = "ret"
    /\ result.kind = "Str"
    /\ LET mixed == Shuffle(<<csv.word>> \o csv.distractors, rng) IN
       /\ CsvNextItem(Append(csv.results,
                             CsvRecord(csv.word, result.val, mixed.val)))
       /\ rng' = mixed.rng
    /\ CallReset
    /\ UNCHANGED <<col, cids, cfg, order, runner>>

\* Line 299.
CsvReturn ==
    /\ csv.pc = "loop"
    /\ csv.index > Len(TestWords(csv.words, csv.test_count))
    /\ csv' = [csv EXCEPT !.pc = "done"]
    /\ UNCHANGED <<col, cids, cfg, order, rng, runner, call>>

\* generate_mcq_for_words(words, test_count) on some rows.
InitCsv ==
    /\ col = <<>>
    /\ cids = <<>>
    /\ cfg \in Configs
    /\ order = 0
    /\ \E ws \in CsvWordLists, n \in 1..DefaultTestCount :
          csv = [NoCsv EXCEPT !.pc = "start", !.words = ws, !.test_count = n]
    /\ rng \in 0..(NumSeeds - 1)
    /\ store = <<>>
    /\ pc = "csv"
    /\ RunnerIdle
    /\ gpc = "idle"
    /\ CallIdle

NextCsv ==
    \/ CsvNoWords
    \/ CsvTooFew
    \/ CsvBegin
    \/ CsvSkipEmpty
    \/ CsvSkipFewOthers
    \/ CsvSelect
    \/ Generate
    \/ CsvOnFailure
    \/ CsvAppend
    \/ CsvReturn

SpecCsv == InitCsv /\ [][NextCsv]_vars

\* --------------------------------------------------- a direct call
DirectWords == { <<"a">>, <<"x", " ", "y">> }

\* generate_sentence_for_word(word, max_retries) called on its own.
InitGen ==
    /\ col = <<>>
    /\ cids = <<>>
    /\ cfg \in Configs
    /\ order = 0
    /\ csv = NoCsv
    /\ rng \in 0..(NumSeeds - 1)
    /\ store = <<>>
    /\ pc = "direct"
    /\ RunnerIdle
    /\ gpc = "start"
    /\ gword \in DirectWords
    /\ gmax \in 0..MaxRetriesArg
    /\ payload = NoPayload /\ retries = 0 /\ requests = 0 /\ n429 = 0
    /\ nErr = 0 /\ waits = 0 /\ sleeps = 0 /\ sent = {} /\ result = None
    /\ err = "none" /\ got = <<>> /\ answer = NoAnswer

SpecGen == InitGen /\ [][Generate]_vars

\* ============================================================ claims
\* The hosted backend is selected and the call gets as far as the retry loop.
HostedReady ==
    /\ ~FormatRaises(cfg.PROMPT_TEMPLATE)
    /\ cfg.LLM_PROVIDER # "ollama"
    /\ cfg.API_KEY # ""
    /\ cfg.AI_MODEL # ""

RecordOptions(f) == <<f.OptionA, f.OptionB, f.OptionC, f.OptionD>>

Items == 1..Len(outcome)

\* C1: every record the runner has saved has four pairwise distinct options,
\* the note's word among them, and the word as its answer, whatever items
\* came before it.
C1_RecordsWellFormed ==
    \A n \in Notes :
        store[n] # OldFields =>
            LET opts == RecordOptions(store[n])
                w == Strip(col[n].Word)
            IN  /\ w # <<>>
                /\ \A i, j \in 1..4 : i # j => opts[i] # opts[j]
                /\ \E i \in 1..4 : opts[i] = w
                /\ store[n].Answer = w

C1_Witness ==
    /\ pc = "done"
    /\ Len(outcome) = 2
    /\ outcome[1].how = "skipped"
    /\ outcome[2].how = "emitted"
    /\ store[cids[2]] # OldFields

\* C2: a hosted call whose every request was answered 429 returns no sentence,
\* reports that the retries are exhausted, and has issued max_retries + 1
\* requests.
C2_Always429Exhausts ==
    (gpc = "ret" /\ HostedReady /\ n429 = requests) =>
        /\ result = None
        /\ err = "RetriesExhausted"
        /\ requests = gmax + 1

C2_Witness ==
    /\ gpc = "ret"
    /\ HostedReady
    /\ n429 = requests
    /\ gmax = MaxRetriesArg
    /\ requests = MaxRetriesArg + 1

\* C3: a hosted call answered 429 k times and then 200 returns the stripped
\* content of the 200 answer after k waits and k + 1 requests, all of which
\* carried the one payload built before the loop (model, prompt with the
\* level drawn once, temperature).
C3_RetrySameRequest ==
    (gpc = "ret" /\ HostedReady /\ result.kind = "Str" /\ nErr = 0) =>
        /\ n429 <= gmax
        /\ waits = n429
        /\ sleeps = 0
        /\ requests = n429 + 1
        /\ result.val = Strip(got)
        /\ sent = {payload}
        /\ payload.model = cfg.AI_MODEL
        /\ payload.temperature = "TEMPERATURE"
        /\ \E i \in 1..Len(Levels) :
              payload.prompt = Format(cfg.PROMPT_TEMPLATE, gword, Levels[i])

C3_Witness ==
    /\ gpc = "ret"
    /\ HostedReady
    /\ result.kind = "Str"
    /\ nErr = 0
    /\ n429 = 2
    /\ requests = 3
    /\ cfg.PROMPT_TEMPLATE = DEFAULT_PROMPT_TEMPLATE

\* C4 as claimed: 429 answers and other errors have budgets of their own, so
\* a call gives up on rate limiting only after more than max_retries 429
\* answers, and on errors only after more than max_retries errors.
C4_SeparateBudgets ==
    (gpc = "ret" /\ HostedReady) =>
        /\ err = "RetriesExhausted" => n429 > gmax
        /\ err = "TransportError" => nErr > gmax

\* C4 as amended: 429 answers and other errors are counted by the one counter
\* retries; each of them takes one unit of the same budget, and the call
\* gives up when their sum reaches max_retries + 1.
C4_SharedBudget ==
    HostedReady =>
        /\ gpc \in {"loop", "inflight", "sleep", "ret"} => retries = n429 + nErr
        /\ gpc = "wait" => retries + 1 = n429 + nErr
        /\ (gpc = "ret" /\ err \in {"RetriesExhausted", "TransportError"}) =>
              n429 + nErr = gmax + 1
        /\ requests <= gmax + 1

C4_Witness ==
    /\ gpc = "ret"
    /\ err = "TransportError"
    /\ n429 > 0
    /\ nErr <= gmax

\* C5 as claimed: an item whose call ran out of rate-limit retries is the
\* last item of the run, and the run is aborted.
C5_ExhaustedAborts ==
    \A i \in Items :
        outcome[i].err = "RetriesExhausted" => (pc = "aborted" /\ Len(outcome) = i)

\* C5 as amended: an item whose call ran out of rate-limit retries gets None
\* back, is skipped without a record, and the loop goes on with the next item.
C5_ExhaustedSkips ==
    /\ (gpc = "ret" /\ err = "RetriesExhausted") => result = None
    /\ \A i \in Items :
          outcome[i].err = "RetriesExhausted" =>
              /\ outcome[i].how = "skipped"
              /\ index > i
              /\ store[cids[i]] = OldFields
              /\ Len(outcome) = i =>
                    (pc \in {"loop", "call", "flush", "done"} /\ index = i + 1)

C5_Witness ==
    /\ Len(outcome) = 2
    /\ outcome[1].err = "RetriesExhausted"
    /\ outcome[2].how = "emitted"

\* C6: under the hosted backend, errors that use up the retries and a 200
\* answer that cannot be processed make the call raise; the runner then ends
\* the run at that item: dialog closed, no later item, no request, no success
\* message, no record for the item.
C6_RaiseAborts ==
    HostedReady =>
        /\ gpc = "sleep" => retries <= gmax
        /\ (gpc = "ret" /\ err \in {"TransportError", "Unexpected"}) =>
              /\ result = Raised
              /\ err = "TransportError" => retries > gmax
        /\ \A i \in Items :
              outcome[i].err \in {"TransportError", "Unexpected"} =>
                  /\ outcome[i].how = "raised"
                  /\ Len(outcome) = i
                  /\ index = i
                  /\ pc = "aborted"
                  /\ gpc = "idle"
                  /\ requests = 0
                  /\ ui.dialog = "closed"
                  /\ ui.closes = 1
                  /\ ui.success = 0
                  /\ store[cids[i]] = OldFields

C6_Witness ==
    /\ pc = "aborted"
    /\ HostedReady
    /\ Len(outcome) = 1
    /\ Len(cids) = 2
    /\ outcome[1].err = "TransportError"

\* Some item of the run has fewer than three candidates other than its word.
InsufficientItem ==
    /\ cids # <<>>
    /\ \E i \in 1..Len(cids) :
          Len(Others(FirstDeckWords, Strip(col[cids[i]].Word))) < NumDistractors

\* C7: a run in which some item has fewer than three candidates is ended
\* before the loop with the too-few-words message: no record is saved for
\* any item and no request is issued.
C7_SmallPoolAborts ==
    (pc # "Pending" /\ InsufficientItem) =>
        /\ pc = "aborted_pool"
        /\ ui.tooFew = 1
        /\ ui.success = 0
        /\ outcome = <<>>
        /\ \A n \in Notes : store[n] = OldFields
        /\ gpc = "idle"
        /\ requests = 0

C7_Witness ==
    /\ pc = "aborted_pool"
    /\ InsufficientItem
    /\ Len(cids) = 2
    /\ Len(deck_words) = 3

IsWritten(f) ==
    /\ f.SentenceBlank # OldFields.SentenceBlank
    /\ f.OptionA # OldFields.OptionA
    /\ f.OptionB # OldFields.OptionB
    /\ f.OptionC # OldFields.OptionC
    /\ f.OptionD # OldFields.OptionD
    /\ f.Answer # OldFields.Answer

\* C8: a saved note either has none of the six fields changed or has all six
\* written by an item that was emitted; items that were passed over, skipped
\* or that ended the run leave their note unchanged; a note object differs
\* from the saved note only between assembly and flush, and then all six
\* fields are written.
C8_NoPartialRecord ==
    /\ \A n \in Notes :
          \/ store[n] = OldFields
          \/ /\ IsWritten(store[n])
             /\ \E i \in Items :
                   /\ cids[i] = n
                   /\ outcome[i].how = "emitted"
                   /\ outcome[i].fields = store[n]
    /\ \A i \in Items : outcome[i].how # "emitted" => store[cids[i]] = OldFields
    /\ pc # "flush" => (note = NoNote \/ note.fields = store[note.nid])
    /\ pc = "flush" => (IsWritten(note.fields) /\ Len(distractors) = NumDistractors)

C8_Witness ==
    /\ pc = "aborted"
    /\ Len(outcome) = 2
    /\ outcome[1].how = "emitted"
    /\ outcome[2].how = "raised"

\* C9: an item whose call failed on the template or on an empty answer of the
\* local server gets None back, is skipped without a record, and the loop
\* goes on; the run is not aborted.
C9_RecoverableSkips ==
    /\ (gpc = "ret" /\ err \in {"InvalidTemplate", "EmptyResponse"}) => result = None
    /\ \A i \in Items :
          outcome[i].err \in {"InvalidTemplate", "EmptyResponse"} =>
              /\ outcome[i].how = "skipped"
              /\ index > i
              /\ store[cids[i]] = OldFields
              /\ pc # "aborted"
              /\ Len(outcome) = i =>
                    (pc \in {"loop", "call", "flush", "done"} /\ index = i + 1)

C9_Witness ==
    /\ Len(outcome) = 2
    /\ outcome[1].err = "EmptyResponse"
    /\ outcome[2].how = "emitted"

\* C10: in an aborted run every record emitted by an earlier item is still
\* stored exactly as it was flushed.
C10_AbortKeepsRecords ==
    Phase = "Aborted" =>
        \A i \in Items :
            outcome[i].how = "emitted" =>
                /\ store[cids[i]] = outcome[i].fields
                /\ IsWritten(store[cids[i]])

C10_Witness ==
    /\ pc = "aborted"
    /\ Len(outcome) = 2
    /\ outcome[1].how = "emitted"
    /\ store[cids[1]] # OldFields

\* C11 as claimed: under the hosted backend an item whose call found the API
\* key or the model name missing is the only item of the run that is
\* processed: the run is aborted at it, so the user is told once.
C11_MissingConfigAborts ==
    \A i \in Items :
        (cfg.LLM_PROVIDER # "ollama" /\ outcome[i].err = "ConfigurationMissing") =>
            /\ Phase = "Aborted"
            /\ Len(outcome) = i
            /\ ui.success = 0

\* The text of a local answer as the claim reads it: message.content when
\* the message object has it, else the top-level content when there is one.
ClaimedText(b) ==
    IF b.isDict /\ b.hasMessage /\ b.messageIsDict /\ b.messageHasContent
    THEN OllamaStripped(b.messageContent)
    ELSE IF b.isDict /\ b.hasContent THEN OllamaStripped(b.content)
    ELSE <<>>

TextOrNull(v) == v.t \in {"str", "null"}

\* C12 as claimed: a local call answered with JSON returns the stripped text
\* of whichever of the two fields is present when it is not empty, and
\* reports an empty response otherwise.
C12_OllamaText ==
    (/\ gpc = "ret"
     /\ cfg.LLM_PROVIDER = "ollama"
     /\ answer.kind = "json"
     /\ TextOrNull(answer.body.messageContent)
     /\ TextOrNull(answer.body.content)) =>
        IF ClaimedText(answer.body) # <<>>
        THEN result = Str(ClaimedText(answer.body))
        ELSE result = None /\ err = "EmptyResponse"

\* C13: under the local backend a call that reaches the server sends one
\* request and no more, whatever comes back; it never waits, sleeps or
\* counts a retry, and a transport error ends it with None at once.
C13_OllamaSingleRequest ==
    cfg.LLM_PROVIDER = "ollama" =>
        /\ requests <= 1
        /\ Cardinality(sent) = requests
        /\ waits = 0 /\ sleeps = 0 /\ retries = 0 /\ n429 = 0 /\ nErr = 0
        /\ gpc \notin {"loop", "inflight", "wait", "sleep"}
        /\ gpc = "ollama_inflight" => requests = 1
        /\ (gpc = "ret" /\ answer.kind # "none") => requests = 1
        /\ answer.kind \in {"transport", "http_error"} =>
              (gpc = "ret" /\ result = None /\ err = "TransportError")

C13_Witness ==
    /\ cfg.LLM_PROVIDER = "ollama"
    /\ gpc = "ret"
    /\ answer.kind = "transport"
    /\ requests = 1
    /\ result = None

\* C14: one run handles its items one after the other in input order: a call
\* is open only for the current item, at most one request of it is in
\* flight, the items ended so far are exactly those before the current one,
\* a note is saved only once every earlier item has ended, and while the
\* call waits on a 429 the runner stays on the same item, which the call
\* resumes with the same request.
C14_Sequential ==
    /\ gpc # "idle" => pc = "call"
    /\ pc \in {"call", "flush"} =>
          /\ index \in 1..Len(cids)
          /\ Len(outcome) = index - 1
          /\ note.nid = cids[index]
          /\ word = ItemWord
    /\ pc = "loop" => Len(outcome) = index - 1
    /\ pc = "call" => gword = word
    /\ Cardinality(sent) <= 1
    /\ gpc \in {"wait", "loop", "inflight", "sleep"} =>
          /\ payload # NoPayload
          /\ sent \subseteq {payload}
    /\ \A i \in 1..Len(cids) :
          store[cids[i]] # OldFields =>
              \E j \in Items : cids[j] = cids[i] /\ outcome[j].how = "emitted"
    /\ ui.progress <= Len(outcome)
    /\ Len(outcome) <= Len(cids)

C14_Witness ==
    /\ gpc = "loop"
    /\ waits >= 1
    /\ index = 2
    /\ outcome[1].how = "emitted"
    /\ sent = {payload}

Terminal == Phase \in {"Completed", "Aborted"}

PhaseOrder == [Pending |-> 0, Running |-> 1, Completed |-> 2, Aborted |-> 2]

\* What the call still has to do at most, counted in steps.
LoopsLeft == gmax + 1 - retries

CallRank ==
    CASE gpc = "start" -> 4 * (gmax + 1) + 5
      [] gpc = "sleep" -> 4 * LoopsLeft + 4
      [] gpc = "loop" -> 4 * LoopsLeft + 3
      [] gpc = "inflight" -> 4 * LoopsLeft + 2
      [] gpc = "wait" -> 4 * LoopsLeft + 1
      [] gpc = "ollama_inflight" -> 1
      [] OTHER -> 0

RankPerItem == 4 * (DefaultMaxRetries + 1) + 8

\* What the run still has to do at most, counted in steps.
Rank ==
    CASE pc = "Pending" -> Len(cids) * RankPerItem + 2
      [] pc = "loop" -> (Len(cids) - index + 1) * RankPerItem + 1
      [] pc = "call" -> (Len(cids) - index) * RankPerItem + 3 + CallRank
      [] pc = "flush" -> (Len(cids) - index) * RankPerItem + 2
      [] OTHER -> 0

\* C15: a run moves from Pending through Running to Completed or Aborted and
\* never back; when every request is answered and every wait elapses it
\* gets there, each step bringing it closer; and once it is there no
\* request is sent and no note is saved any more.
C15_Terminates ==
    /\ [][PhaseOrder[Phase'] >= PhaseOrder[Phase]]_vars
    /\ [][Rank >= 0 /\ Rank' < Rank]_vars
    /\ [][Terminal => (Phase' = Phase /\ requests' = requests /\ sent' = sent
                       /\ gpc' = gpc /\ store' = store /\ outcome' = outcome)]_vars
    /\ [](Terminal => (gpc = "idle" /\ requests = 0 /\ ui.dialog # "open"))
    /\ <>[]Terminal

C15_Witness ==
    /\ Phase = "Completed"
    /\ ui.success = 1
    /\ Len(cids) = 2
    /\ Len(outcome) = 2
    /\ outcome[1].how = "skipped"
    /\ outcome[1].err = "RetriesExhausted"
    /\ outcome[2].how = "emitted"

PreconditionFails ==
    \/ FormatRaises(cfg.PROMPT_TEMPLATE)
    \/ cfg.LLM_PROVIDER = "ollama" /\ cfg.OLLAMA_MODEL = ""
    \/ cfg.LLM_PROVIDER # "ollama" /\ (cfg.API_KEY = "" \/ cfg.AI_MODEL = "")

\* C17: a call whose template cannot be rendered, or whose backend lacks
\* its model name or (hosted) its API key, sends nothing, never waits or
\* sleeps, and returns None at its first step with the matching failure.
C17_NoRequestOnPrecondition ==
    PreconditionFails =>
        /\ requests = 0 /\ sent = {} /\ payload = NoPayload
        /\ waits = 0 /\ sleeps = 0 /\ retries = 0
        /\ gpc \in {"start", "ret"}
        /\ gpc = "ret" =>
              /\ result = None
              /\ err = IF FormatRaises(cfg.PROMPT_TEMPLATE) THEN "InvalidTemplate"
                       ELSE "ConfigurationMissing"

C17_Witness ==
    /\ PreconditionFails
    /\ ~FormatRaises(cfg.PROMPT_TEMPLATE)
    /\ cfg.LLM_PROVIDER # "ollama"
    /\ cfg.AI_MODEL = ""
    /\ gpc = "ret"
    /\ requests = 0
    /\ err = "ConfigurationMissing"

BlankAnswer ==
    /\ cfg.LLM_PROVIDER # "ollama"
    /\ answer.kind = "ok"
    /\ Strip(got) = <<>>

\* C18: under the hosted backend a 200 whose content is empty or only
\* whitespace ends the call at once with the empty string and no failure;
\* the runner goes on to set the fields of the note with an empty sentence
\* and saves it as it saves any other record.
C18_BlankIsSuccess ==
    /\ [](BlankAnswer => (gpc = "ret" /\ result = Str(<<>>) /\ err = "none"))
    /\ [](cfg.LLM_PROVIDER # "ollama" =>
             /\ err # "EmptyResponse"
             /\ \A i \in Items : outcome[i].err # "EmptyResponse")
    /\ [][(pc = "call" /\ BlankAnswer) =>
             /\ pc' = "flush"
             /\ note'.nid = cids[index]
             /\ note'.fields.SentenceBlank = <<>>
             /\ note'.fields.Answer = word]_vars
    /\ [][pc = "flush" =>
             /\ store'[note.nid] = note.fields
             /\ outcome' = Append(outcome, Ended("emitted", "none", note.fields))]_vars

C18_Witness ==
    /\ cfg.LLM_PROVIDER # "ollama"
    /\ \E i \in Items :
          /\ outcome[i].how = "emitted"
          /\ outcome[i].fields.SentenceBlank = <<>>
          /\ store[cids[i]].SentenceBlank = <<>>
          /\ store[cids[i]].Answer = Strip(col[cids[i]].Word)

\* C19 as claimed: every request that leaves carries a timeout, and the one
\* of a local request is longer than the one of a hosted request.
C19_EveryRequestTimed ==
    \A p \in sent :
        /\ p.timeout > 0
        /\ cfg.LLM_PROVIDER = "ollama" => p.timeout > HostedPayload(p.prompt).timeout

\* C20 as claimed: every record the CSV harness returns has four options
\* that differ pairwise, its word among them, and Answer equal to its word.
C20_CsvOptionsDistinct ==
    \A i \in 1..Len(csv.results) :
        LET r == csv.results[i]
            o == RecordOptions(r)
        IN  /\ \A j, k \in 1..4 : j # k => o[j] # o[k]
            /\ \E j \in 1..4 : o[j] = r.Word
            /\ r.Answer = r.Word

\* C21: a hosted call sends at most max_retries + 1 requests however 429
\* answers and errors alternate, every answered request but a 200 counts
\* one retry, and once the (max_retries + 1)-th request has left the call
\* only waits for its answer, waits out a 429 and ends.
C21_RequestBound ==
    HostedReady =>
        /\ requests <= gmax + 1
        /\ n429 + nErr <= requests
        /\ gpc \in {"loop", "sleep"} => requests = retries
        /\ gpc \in {"inflight", "wait"} => requests = retries + 1
        /\ gpc = "sleep" => requests <= gmax
        /\ requests = gmax + 1 =>
              \/ gpc \in {"inflight", "wait", "ret"}
              \/ gpc = "loop" /\ ~RetryAllowed(retries, gmax)

C21_Witness ==
    /\ HostedReady
    /\ gpc = "ret"
    /\ gmax = MaxRetriesArg
    /\ requests = gmax + 1
    /\ n429 >= 1
    /\ nErr >= 1

\* C22: under the hosted backend every 429 is waited out once before the
\* retry bound is looked at again, the 429 of the last attempt included: no
\* request is sent without the waits of all earlier 429 answers, and a call
\* answered 429 every time has waited max_retries + 1 times when it
\* reports that the retries are exhausted.
C22_WaitAfterEvery429 ==
    HostedReady =>
        /\ waits = n429
        /\ gpc = "inflight" => waits <= requests - 1
        /\ gpc = "wait" => (n429 >= 1 /\ retries <= gmax)
        /\ (gpc = "ret" /\ err = "RetriesExhausted") => waits >= 1
        /\ (gpc = "ret" /\ n429 = requests) =>
              (waits = gmax + 1 /\ err = "RetriesExhausted")

C22_Witness ==
    /\ HostedReady
    /\ gpc = "ret"
    /\ err = "RetriesExhausted"
    /\ n429 = requests
    /\ waits = MaxRetriesArg + 1
    /\ gmax = MaxRetriesArg

\* C23: the success message is shown once when the loop has run to its end
\* and never otherwise, also when no note was saved; the progress dialog is
\* closed once when the run completes and once when it is aborted in the
\* loop, and is never opened when the deck has too few words.
C23_SuccessIffLoopEnds ==
    /\ ui.success = (IF pc = "done" THEN 1 ELSE 0)
    /\ pc \in {"done", "aborted"} =>
          (ui.closes = 1 /\ ui.dialog = "closed" /\ ui.resets = 1)
    /\ pc \in {"loop", "call", "flush"} => (ui.closes = 0 /\ ui.dialog = "open")
    /\ pc \in {"Pending", "returned", "aborted_pool"} =>
          (ui.closes = 0 /\ ui.dialog = "none")
    /\ pc = "aborted" => ui.apiError = 1
    /\ pc = "aborted_pool" => ui.tooFew = 1

C23_Witness ==
    /\ pc = "done"
    /\ ui.success = 1
    /\ ui.closes = 1
    /\ Len(outcome) = 2
    /\ \A i \in Items : outcome[i].how # "emitted"
    /\ \A n \in Notes : store[n] = OldFields

====
